---- MODULE Spec2Model ----
(***************************************************************************)
(* Head-pose / gaze-oscillation monitor of src/headD.py (the live variant, *)
(* lines 136-285; lines 1-134 are a commented-out legacy variant).         *)
(*                                                                         *)
(* One step of the model is one iteration of the main loop (one frame).    *)
(* A frame is the list results.multi_face_landmarks; a face carries the    *)
(* x pixel coordinates of the landmarks the gaze code reads and what       *)
(* cv2.solvePnP / cv2.RQDecomp3x3 give for it: the success flag and the    *)
(* yaw angle (whole degrees).  y coordinates, pitch and roll are computed  *)
(* by the code but never read by a decision, so they are left out.         *)
(*                                                                         *)
(* Gaze samples are kept in HALF pixels: avg_offset = (l + r) / 2 is a     *)
(* true division of two integers, so the model stores l + r and compares   *)
(* it with 2 * GAZE_THRESHOLD.                                             *)
(***************************************************************************)
EXTENDS Integers, Sequences, FiniteSets

VARIABLES
    running,        \* the while True loop has not hit a break
    results,        \* results.multi_face_landmarks of the frame just processed
    head_abnormal,  \* flag, line 165 / 216
    gaze_abnormal,  \* flag, line 166 / 259
    gaze_sequence,  \* the Gaze Window, line 153 (half pixels, oldest first)
    printed,        \* the tuples print() wrote during the frame just processed
    hist            \* history: every sample ever appended, in order

vars == <<running, results, head_abnormal, gaze_abnormal, gaze_sequence, printed, hist>>

----------------------------------------------------------------------------
(* Program constants *)

GAZE_THRESHOLD == 6

SEQUENCE_LENGTH == 6

HEAD_ANGLE_LIMIT == 10

(* Bounds of the model *)

MaxAppends == 7

MaxFaces == 2

----------------------------------------------------------------------------
(* Inputs *)

LandmarkIndex == {33, 133, 263, 362, 468, 473}

\* x coordinates of one face: eye corners fixed, iris centres li / ri.
\* The left eye spans 100..131, so its centre (115.5) is truncated to 115.
Landmarks(li, ri) ==
    [i \in LandmarkIndex |->
        CASE i = 468 -> li
          [] i = 473 -> ri
          [] i = 33  -> 100
          [] i = 133 -> 131
          [] i = 362 -> 200
          [] i = 263 -> 230]

Face(iris, ok, y) == [landmarks |-> Landmarks(iris[1], iris[2]), success |-> ok, yaw |-> y]

\* iris pairs giving the samples -6.5, -6, 6 and 6.5 px
FarLeft   == <<109, 208>>
EdgeLeft  == <<109, 209>>
EdgeRight == <<121, 221>>
FarRight  == <<121, 222>>

IrisPairs == {FarLeft, EdgeLeft, EdgeRight, FarRight}

YawValues == {-15, -10, 9, 10, 11}

\* Faces of the single-face specification: every iris pair under a turned
\* head, every yaw value, and failed pose solves, whose rotation vector is
\* whatever the solver left behind (two of the possible outcomes).
Faces ==
    {Face(p, TRUE, 25) : p \in IrisPairs}
    \cup {Face(FarRight, TRUE, y) : y \in YawValues}
    \cup {Face(FarLeft, FALSE, y) : y \in {0, 25}}

Frames == {<<>>} \cup {<<f>> : f \in Faces}

\* Faces of the multi-face specification.
MultiFaces == {Face(FarRight, TRUE, 25), Face(FarLeft, TRUE, 25), Face(FarRight, TRUE, 9)}

MultiFrames == UNION {[1..n -> MultiFaces] : n \in 0..MaxFaces}

----------------------------------------------------------------------------
(* Pure helpers *)

Abs(x) == IF x < 0 THEN -x ELSE x

\* Python int(n / 2): truncation toward zero
IntHalf(n) == IF n >= 0 THEN n \div 2 ELSE -((-n) \div 2)

EyeCenterX(a, b) == IntHalf(a + b)

LeftOffset(lm) == lm[468] - EyeCenterX(lm[33], lm[133])

RightOffset(lm) == lm[473] - EyeCenterX(lm[362], lm[263])

\* avg_offset in half pixels
AvgOffset(lm) == LeftOffset(lm) + RightOffset(lm)

SeqMax(s) == CHOOSE x \in {s[i] : i \in 1..Len(s)} : \A j \in 1..Len(s) : s[j] <= x

SeqMin(s) == CHOOSE x \in {s[i] : i \in 1..Len(s)} : \A j \in 1..Len(s) : x <= s[j]

\* the for loop rebinds landmarks and yaw for each face; what is left after
\* the loop is the last face's
FirstLandmarks(faces) == faces[1].landmarks

LoopLandmarks(faces) == faces[Len(faces)].landmarks

LoopYaw(faces) == faces[Len(faces)].yaw

HeadAbnormalInclusive(head_angle) == IF Abs(head_angle) >= HEAD_ANGLE_LIMIT THEN 1 ELSE 0

HeadAbnormal(head_angle) == IF Abs(head_angle) > HEAD_ANGLE_LIMIT THEN 1 ELSE 0

\* pop() in place of pop(0): the newest sample is dropped
StoreSequencePopLast(seq, sample) ==
    LET grown == Append(seq, sample)
    IN IF Len(grown) > SEQUENCE_LENGTH THEN SubSeq(grown, 1, Len(grown) - 1) ELSE grown

\* the bound is tested one too late
StoreSequenceLate(seq, sample) ==
    LET grown == Append(seq, sample)
    IN IF Len(grown) > SEQUENCE_LENGTH + 1 THEN Tail(grown) ELSE grown

StoreSequence(seq, sample) ==
    LET grown == Append(seq, sample)
    IN IF Len(grown) > SEQUENCE_LENGTH THEN Tail(grown) ELSE grown

\* non-strict comparisons
GazeAbnormalInclusive(seq) ==
    IF Len(seq) = SEQUENCE_LENGTH
       THEN IF SeqMax(seq) >= 2 * GAZE_THRESHOLD /\ SeqMin(seq) <= -(2 * GAZE_THRESHOLD)
               THEN 1 ELSE 0
       ELSE 0

\* no test that the window is full
GazeAbnormalEager(seq) ==
    IF SeqMax(seq) > 2 * GAZE_THRESHOLD /\ SeqMin(seq) < -(2 * GAZE_THRESHOLD) THEN 1 ELSE 0

GazeAbnormal(seq) ==
    IF Len(seq) = SEQUENCE_LENGTH
       THEN IF SeqMax(seq) > 2 * GAZE_THRESHOLD /\ SeqMin(seq) < -(2 * GAZE_THRESHOLD)
               THEN 1 ELSE 0
       ELSE 0

\* value of the flags at the top of each frame
FlagResetStale(old) == old

FlagReset(old) == 0

\* the gaze block (lines 218-277) is nested in "if abs(head_angle) > 10"
GazeGateOpen(head) == TRUE

GazeGate(head) == head = 1

\* what print() writes in a frame: one line, inside the head-abnormal block
Emitted(faces, head, gaze) ==
    IF faces # <<>> /\ head = 1 THEN << <<head, gaze>> >> ELSE <<>>

----------------------------------------------------------------------------
(* State machine *)

\* State on entry to the loop.  The flags are unbound until line 165-166 of
\* the first frame; they are shown as 0, the value every frame starts with.
\* The loop variables landmarks, yaw and success outlive a frame, but a
\* frame with faces rebinds them before line 214 reads them, so they are
\* taken from the frame in hand and carry no state.
Init ==
    /\ running = TRUE
    /\ results = <<>>
    /\ head_abnormal = 0
    /\ gaze_abnormal = 0
    /\ gaze_sequence = <<>>
    /\ printed = <<>>
    /\ hist = <<>>

\* One iteration of the main loop on a frame that cap.read() delivered.
ProcessFrame(faces) ==
    LET head0 == FlagReset(head_abnormal)
        gaze0 == FlagReset(gaze_abnormal)
        head1 == IF faces # <<>> /\ HeadAbnormal(LoopYaw(faces)) = 1 THEN 1 ELSE head0
        gazing == faces # <<>> /\ GazeGate(head1)
        sample == AvgOffset(LoopLandmarks(faces))
        window == IF gazing THEN StoreSequence(gaze_sequence, sample) ELSE gaze_sequence
        gaze1 == IF gazing /\ GazeAbnormal(window) = 1 THEN 1 ELSE gaze0
    IN /\ running
       /\ gazing => Len(hist) < MaxAppends
       /\ results' = faces
       /\ head_abnormal' = head1
       /\ gaze_abnormal' = gaze1
       /\ gaze_sequence' = window
       /\ hist' = IF gazing THEN Append(hist, sample) ELSE hist
       /\ printed' = Emitted(faces, head1, gaze1)
       /\ UNCHANGED running

\* cap.read() fails (line 158) or ESC is pressed (line 281): break
Terminate ==
    /\ running
    /\ running' = FALSE
    /\ UNCHANGED <<results, head_abnormal, gaze_abnormal, gaze_sequence, printed, hist>>

Next ==
    \/ \E faces \in Frames : ProcessFrame(faces)
    \/ Terminate

Spec == Init /\ [][Next]_vars

NextMulti ==
    \/ \E faces \in MultiFrames : ProcessFrame(faces)
    \/ Terminate

SpecMulti == Init /\ [][NextMulti]_vars

----------------------------------------------------------------------------
(* Properties *)

Limit == 2 * GAZE_THRESHOLD

\* the gaze block ran on the frame just processed
GazeRan == results # <<>> /\ head_abnormal = 1

SwingsBothWays(seq) ==
    /\ \E i \in 1..Len(seq) : seq[i] > Limit
    /\ \E j \in 1..Len(seq) : seq[j] < -Limit

\* the last min(Len(h), SEQUENCE_LENGTH) elements of h, in order
Trailing(h) ==
    IF Len(h) <= SEQUENCE_LENGTH THEN h
    ELSE SubSeq(h, Len(h) - SEQUENCE_LENGTH + 1, Len(h))

\* C1: on a frame where the gaze block ran and the window holds exactly
\* SEQUENCE_LENGTH samples, gaze_abnormal = 1 iff some sample is strictly
\* above +6 px and some sample is strictly below -6 px, wherever they sit.
C1_OscillationRule ==
    (GazeRan /\ Len(gaze_sequence) = SEQUENCE_LENGTH)
        => (gaze_abnormal = 1 <=> SwingsBothWays(gaze_sequence))

\* five samples of +6.5 px and one of -6.5 px, the negative one last: flagged
C1_Witness ==
    /\ GazeRan
    /\ gaze_sequence = <<13, 13, 13, 13, 13, -13>>
    /\ gaze_abnormal = 1

\* C2: a frame classified head_abnormal = 0 appends no sample, leaves the
\* window as it was and reports gaze_abnormal = 0; so gaze_abnormal = 1
\* implies head_abnormal = 1.
C2_GazeGatedOnHead ==
    /\ [][(running' /\ head_abnormal' = 0)
            => (gaze_sequence' = gaze_sequence /\ hist' = hist /\ gaze_abnormal' = 0)]_vars
    /\ [](gaze_abnormal = 1 => head_abnormal = 1)

\* a face with a normal head pose arrived while the window was full and
\* swinging both ways
C2_Witness ==
    /\ results # <<>>
    /\ head_abnormal = 0
    /\ Len(gaze_sequence) = SEQUENCE_LENGTH
    /\ SwingsBothWays(gaze_sequence)
    /\ gaze_abnormal = 0

\* C3: while fewer than SEQUENCE_LENGTH samples have been appended since
\* program start, gaze_abnormal = 0, whatever the samples are.
C3_ColdStart == Len(hist) < SEQUENCE_LENGTH => gaze_abnormal = 0

\* five samples, swinging both ways, the gaze block just ran: still 0
C3_Witness ==
    /\ GazeRan
    /\ Len(hist) = SEQUENCE_LENGTH - 1
    /\ SwingsBothWays(hist)
    /\ gaze_abnormal = 0

\* C4: after k appended samples the window is the last min(k, 6) of them in
\* insertion order.
C4_FifoEviction == gaze_sequence = Trailing(hist)

\* seven appends, the first sample differs from the others and is gone
C4_Witness ==
    /\ Len(hist) = SEQUENCE_LENGTH + 1
    /\ hist[1] = -13
    /\ gaze_sequence = <<13, 12, 13, 12, 13, 12>>

\* C5: the window never holds more than SEQUENCE_LENGTH samples.
C5_WindowBounded == Len(gaze_sequence) <= SEQUENCE_LENGTH

\* more samples were appended than the window holds
C5_Witness ==
    /\ Len(hist) > SEQUENCE_LENGTH
    /\ Len(gaze_sequence) = SEQUENCE_LENGTH

\* C6: on a frame with a face, head_abnormal = 1 iff |yaw| > 10 (strict),
\* a function of this frame's yaw alone.
C6_HeadThreshold ==
    results # <<>> =>
        /\ head_abnormal \in {0, 1}
        /\ head_abnormal = 1 <=> (results[Len(results)].yaw > 10 \/ results[Len(results)].yaw < -10)

\* yaw of exactly -10 after frames that were flagged: not flagged
C6_Witness ==
    /\ results # <<>>
    /\ results[Len(results)].yaw = -10
    /\ hist # <<>>
    /\ head_abnormal = 0

\* C7 (as claimed): a frame whose pose solve failed yields both flags 0 and
\* leaves the window untouched.
C7_FailedSolveSkipped ==
    [][(running' /\ results' # <<>> /\ ~results'[Len(results')].success)
         => (head_abnormal' = 0 /\ gaze_abnormal' = 0
             /\ gaze_sequence' = gaze_sequence /\ hist' = hist)]_vars

\* C8: a frame with no face leaves both flags 0 and the window as it was,
\* and the loop keeps running.
C8_NoFace ==
    /\ [][ProcessFrame(<<>>)
            => (running' /\ head_abnormal' = 0 /\ gaze_abnormal' = 0 /\ printed' = <<>>
                /\ gaze_sequence' = gaze_sequence /\ hist' = hist)]_vars
    /\ []((running /\ results = <<>>)
            => (head_abnormal = 0 /\ gaze_abnormal = 0 /\ ENABLED ProcessFrame(<<>>)))

\* a frame without a face came after the window had filled and swung
C8_Witness ==
    /\ running
    /\ results = <<>>
    /\ Len(gaze_sequence) = SEQUENCE_LENGTH
    /\ SwingsBothWays(gaze_sequence)
    /\ head_abnormal = 0
    /\ gaze_abnormal = 0

\* C9 (as claimed): every frame emits the tuple (head_abnormal,
\* gaze_abnormal) exactly once per detected face, whatever the flags are.
C9_EmittedPerFace ==
    /\ Len(printed) = Len(results)
    /\ \A i \in 1..Len(printed) : printed[i] = <<head_abnormal, gaze_abnormal>>

\* C10: on a frame with faces the head flag, the sample and the window
\* update are those of the last face alone, and at most one sample is
\* appended per frame.
C10_LastFaceWins ==
    [][(running' /\ results' # <<>>) =>
        LET last == results'[Len(results')]
            sample == AvgOffset(last.landmarks)
        IN /\ Len(hist') <= Len(hist) + 1
           /\ IF last.yaw > 10 \/ last.yaw < -10
                 THEN /\ head_abnormal' = 1
                      /\ hist' = Append(hist, sample)
                      /\ gaze_sequence' = Trailing(hist')
                 ELSE /\ head_abnormal' = 0
                      /\ hist' = hist
                      /\ gaze_sequence' = gaze_sequence]_vars

\* two faces, the first with a normal pose and the last turned: flagged and
\* the last face's sample is the newest in the window
C10_Witness ==
    /\ Len(results) = 2
    /\ results[1].yaw = 9
    /\ results[2].yaw = 25
    /\ head_abnormal = 1
    /\ gaze_sequence # <<>>
    /\ gaze_sequence[Len(gaze_sequence)] = AvgOffset(results[2].landmarks)

====
